---- MODULE Spec2Model ----
(***************************************************************************)
(* Model of the Musixmatch client (src/src/classes/musixmatch.ts) and its  *)
(* two error types (src/src/classes/expectations.ts).                      *)
(*                                                                         *)
(* Text is modelled as a sequence of atoms: an atom is a piece of text     *)
(* without '=' ("q", "A B", "apikey", a whole message) or the single       *)
(* character "=".  JavaScript values are tagged records [t, v].            *)
(***************************************************************************)
EXTENDS Naturals, Sequences, FiniteSets, TLC

VARIABLES apikey, calls

vars == <<apikey, calls>>

(***************************************************************************)
(* Bounds                                                                  *)
(***************************************************************************)
NumCalls == 2
MaxStrLen == 5
MaxArgs == 3

CallIds == 1..NumCalls

(***************************************************************************)
(* JavaScript values                                                       *)
(***************************************************************************)
Undefined == [t |-> "undefined", v |-> <<>>]
Null == [t |-> "null", v |-> <<>>]
Str(s) == [t |-> "string", v |-> s]
Obj(raw) == [t |-> "object", v |-> raw]
Num(n) == [t |-> "number", v |-> n]

\* x is null or undefined (the test of the ?? operator)
IsNullish(x) == x.t \in {"undefined", "null"}

\* a ?? b
Coalesce(a, b) == IF IsNullish(a) THEN b ELSE a

\* truthiness of a value (the test of ||, of ?: and of if)
Truthy(x) == CASE x.t = "undefined" -> FALSE
               [] x.t = "null" -> FALSE
               [] x.t = "string" -> x.v # <<>>
               [] OTHER -> TRUE

\* a || b
OrElse(a, b) == IF Truthy(a) THEN a ELSE b

\* `${x}`: a string is itself, an object prints as "[object Object]"
TemplateString(x) == CASE x.t = "string" -> x.v
                       [] x.t = "object" -> <<"[object Object]">>
                       [] x.t = "undefined" -> <<"undefined">>
                       [] OTHER -> <<"null">>

(***************************************************************************)
(* expectations.ts                                                         *)
(***************************************************************************)
TableCodes == {400, 401, 402, 403, 404, 405, 500, 503}

\* MXMException.codes[status_code]
CodesLookup(status_code) ==
    CASE status_code = 400 -> Str(<<"The request had bad syntax or was inherently impossible to be satisfied.">>)
      [] status_code = 401 -> Str(<<"Authentication failed, probably because of invalid/missing API key.">>)
      [] status_code = 402 -> Str(<<"The usage limit has been reached, either you exceeded per day requests limits or your balance is insufficient.">>)
      [] status_code = 403 -> Str(<<"You are not authorized to perform this operation.">>)
      [] status_code = 404 -> Str(<<"The requested resource was not found.">>)
      [] status_code = 405 -> Str(<<"The requested method was not found.">>)
      [] status_code = 500 -> Str(<<"Ops. Something went wrong.">>)
      [] status_code = 503 -> Str(<<"Our system is a bit busy at the moment and your request can't be satisfied.">>)
      [] OTHER -> Undefined

NoResponse == [present |-> FALSE, status |-> 0, data |-> Undefined]

\* An error object: the fields the dispatcher and its callers read.
ErrorObject(name, message, status_code, requestURL, requestUrl, response, code) ==
    [name |-> name, message |-> message, status_code |-> status_code,
     requestURL |-> requestURL, requestUrl |-> requestUrl,
     response |-> response, code |-> code]

\* MXMException without the table lookup: message ?? 'Unknown Error'
MXMException_NoTable(status_code, requestURL, message) ==
    ErrorObject("MXMException", Coalesce(message, Str(<<"Unknown Error">>)),
                Num(status_code), requestURL, Undefined, NoResponse, "")

\* MXMException without the last fallback: message ?? codes[status_code]
MXMException_NoFallback(status_code, requestURL, message) ==
    ErrorObject("MXMException", Coalesce(message, CodesLookup(status_code)),
                Num(status_code), requestURL, Undefined, NoResponse, "")

\* new MXMException(status_code, requestURL, message)
MXMException(status_code, requestURL, message) ==
    LET errorMessage ==
            Coalesce(message, Coalesce(CodesLookup(status_code), Str(<<"Unknown Error">>)))
    IN  ErrorObject("MXMException", errorMessage, Num(status_code), requestURL,
                    Undefined, NoResponse, "")

\* new MusixmatchError(message, url)
MusixmatchError(message, url) ==
    ErrorObject("MusixmatchError", message, Undefined, Undefined, url, NoResponse, "")

(***************************************************************************)
(* musixmatch.ts: parameter strings                                        *)
(***************************************************************************)
\* index of the first "=" of s at or after position i, 0 when there is none
RECURSIVE FirstEq(_, _)
FirstEq(s, i) == IF i > Len(s) THEN 0
                 ELSE IF s[i] = "=" THEN i
                 ELSE FirstEq(s, i + 1)

\* param.split('='): every "=" separates, no limit
RECURSIVE Split(_)
Split(s) == LET i == FirstEq(s, 1)
            IN  IF i = 0 THEN <<s>>
                ELSE <<SubSeq(s, 1, i - 1)>> \o Split(SubSeq(s, i + 1, Len(s)))

\* obj[k] = v
Put(obj, k, v) == [x \in DOMAIN obj \cup {k} |-> IF x = k THEN v ELSE obj[x]]

EmptyObject == [x \in {} |-> Undefined]

\* Object.fromEntries: entry[0] is the key, entry[1] the value, any further
\* element of an entry is ignored; a later entry overwrites an earlier one
RECURSIVE FromEntries(_)
FromEntries(entries) ==
    IF entries = <<>> THEN EmptyObject
    ELSE LET n == Len(entries)
             e == entries[n]
         IN  Put(FromEntries(SubSeq(entries, 1, n - 1)), e[1],
                 IF Len(e) >= 2 THEN Str(e[2]) ELSE Undefined)

\* Object.fromEntries(params.map((param) => param.split('=')))
QueryParams(args) == FromEntries([i \in 1..Len(args) |-> Split(args[i])])

(***************************************************************************)
(* musixmatch.ts: the public endpoint methods                              *)
(***************************************************************************)
\* the table with trackLyricsGet written with 'post' as well
EndpointMethods_TwoPosts ==
    {[name |-> "trackGet", method |-> "get", apiMethod |-> "track.get", takesParams |-> TRUE],
     [name |-> "trackSearch", method |-> "get", apiMethod |-> "track.search", takesParams |-> TRUE],
     [name |-> "trackLyricsGet", method |-> "post", apiMethod |-> "track.lyrics.get", takesParams |-> TRUE],
     [name |-> "trackLyricsPost", method |-> "post", apiMethod |-> "track.lyrics.post", takesParams |-> TRUE],
     [name |-> "musicGenresGet", method |-> "get", apiMethod |-> "music.genres.get", takesParams |-> FALSE]}

\* One row per public method: the HTTP method and API method it passes to
\* _apiCall, and whether it builds queryParams from its arguments.
EndpointMethods == {
    [name |-> "trackGet", method |-> "get", apiMethod |-> "track.get", takesParams |-> TRUE],
    [name |-> "trackSearch", method |-> "get", apiMethod |-> "track.search", takesParams |-> TRUE],
    [name |-> "chartArtistGet", method |-> "get", apiMethod |-> "chart.artists.get", takesParams |-> TRUE],
    [name |-> "chartTracksGet", method |-> "get", apiMethod |-> "chart.tracks.get", takesParams |-> TRUE],
    [name |-> "trackLyricsGet", method |-> "get", apiMethod |-> "track.lyrics.get", takesParams |-> TRUE],
    [name |-> "trackLyricsPost", method |-> "post", apiMethod |-> "track.lyrics.post", takesParams |-> TRUE],
    [name |-> "trackLyricsMoodGet", method |-> "get", apiMethod |-> "track.lyrics.mood.get", takesParams |-> TRUE],
    [name |-> "trackSnippetGet", method |-> "get", apiMethod |-> "track.snippet.get", takesParams |-> TRUE],
    [name |-> "trackSubtitleGet", method |-> "get", apiMethod |-> "track.subtitle.get", takesParams |-> TRUE],
    [name |-> "trackRichSyncGet", method |-> "get", apiMethod |-> "track.richsync.get", takesParams |-> TRUE],
    [name |-> "trackLyricsTranslationGet", method |-> "get", apiMethod |-> "track.lyrics.translation.get", takesParams |-> TRUE],
    [name |-> "trackSubttileTranslationGet", method |-> "get", apiMethod |-> "track.subtitle.translation.get", takesParams |-> TRUE],
    [name |-> "musicGenresGet", method |-> "get", apiMethod |-> "music.genres.get", takesParams |-> FALSE],
    [name |-> "matcherLyricsGet", method |-> "get", apiMethod |-> "matcher.lyrics.get", takesParams |-> TRUE],
    [name |-> "matcherTrackGet", method |-> "get", apiMethod |-> "matcher.track.get", takesParams |-> TRUE],
    [name |-> "matcherSubtitleGet", method |-> "get", apiMethod |-> "matcher.subtitle.get", takesParams |-> TRUE],
    [name |-> "artistGet", method |-> "get", apiMethod |-> "artist.get", takesParams |-> TRUE],
    [name |-> "artistSearch", method |-> "get", apiMethod |-> "artist.search", takesParams |-> TRUE],
    [name |-> "artistAlbumsGet", method |-> "get", apiMethod |-> "artist.albums.get", takesParams |-> TRUE],
    [name |-> "artistRelatedGet", method |-> "get", apiMethod |-> "artist.related.get", takesParams |-> TRUE],
    [name |-> "albumGet", method |-> "get", apiMethod |-> "album.get", takesParams |-> TRUE],
    [name |-> "albumTracksGet", method |-> "get", apiMethod |-> "album.tracks.get", takesParams |-> TRUE]
    }

EndpointNames == {e.name : e \in EndpointMethods}

Endpoint(name) == CHOOSE e \in EndpointMethods : e.name = name

\* The params argument an endpoint method hands to _apiCall: the parsed
\* object, or nothing at all (musicGenresGet).
ParamsArgument(name, args) ==
    IF Endpoint(name).takesParams
    THEN [given |-> TRUE, obj |-> QueryParams(args)]
    ELSE [given |-> FALSE, obj |-> EmptyObject]

(***************************************************************************)
(* musixmatch.ts: _apiCall                                                 *)
(***************************************************************************)
baseUrl == "https://api.musixmatch.com/ws/1.1/"

\* `${this.baseUrl}${apiMethod}`
Url(apiMethod) == Str(<<baseUrl, apiMethod>>)

ApiKeyName == <<"apikey">>

\* options.params falling back on the caller's apikey when none is stored:
\* { ...params, apikey: this.apikey ?? params.apikey }
OptionsParams_CallerKeyFallback(params, key) ==
    IF params.given
    THEN Put(params.obj, ApiKeyName,
             IF IsNullish(key) /\ ApiKeyName \in DOMAIN params.obj
             THEN params.obj[ApiKeyName] ELSE key)
    ELSE Put(EmptyObject, ApiKeyName, key)

\* options.params with the spread last: { apikey: this.apikey, ...params }
OptionsParams_SpreadLast(params, key) ==
    IF params.given
    THEN [x \in DOMAIN params.obj \cup {ApiKeyName} |->
             IF x \in DOMAIN params.obj THEN params.obj[x] ELSE key]
    ELSE Put(EmptyObject, ApiKeyName, key)

\* options.params: an object is always truthy, so a given params object is
\* spread and apikey written last; without params the object has apikey only
OptionsParams(params, key) ==
    IF params.given
    THEN Put(params.obj, ApiKeyName, key)
    ELSE Put(EmptyObject, ApiKeyName, key)

\* the argument of axios.request: method, url and params, and no data (body)
Request(method, apiMethod, params, key) ==
    [method |-> method, url |-> Url(apiMethod), params |-> OptionsParams(params, key),
     data |-> Undefined]

NoRequest == [method |-> "", url |-> Undefined, params |-> EmptyObject, data |-> Undefined]

\* response.data: an envelope {message: {header, body}}, or data without a
\* message, or a message without a header
Envelope(status_code, hint, body) ==
    [shape |-> "envelope",
     header |-> [status_code |-> status_code, execute_time |-> 1, hint |-> hint],
     body |-> body]

NoHeader == [status_code |-> 0, execute_time |-> 0, hint |-> Undefined]

MalformedData(shape) == [shape |-> shape, header |-> NoHeader, body |-> ""]

NoData == MalformedData("none")

NoError == ErrorObject("", Undefined, Undefined, Undefined, Undefined, NoResponse, "")

\* what the try block does with a response: return a value or throw
Return(value) == [kind |-> "return", value |-> value, error |-> NoError]
Throw(error) == [kind |-> "throw", value |-> NoData, error |-> error]

TypeError(message) ==
    ErrorObject("TypeError", Str(<<message>>), Undefined, Undefined, Undefined, NoResponse, "")

\* the try block reading the status with optional chaining and a default:
\* response.data?.message?.header?.status_code ?? 200
TryBlock_DefaultsTo200(data, configUrl) ==
    IF data.shape # "envelope" \/ data.header.status_code = 200
    THEN Return(data)
    ELSE Throw(MXMException(data.header.status_code, Str(TemplateString(configUrl)),
                            OrElse(data.header.hint, Null)))

\* the try block returning response.data.message.body instead of response.data
TryBlock_ReturnsBody(data, configUrl) ==
    IF data.shape = "envelope" /\ data.header.status_code = 200
    THEN Return([data EXCEPT !.header = NoHeader])
    ELSE Throw(MXMException(data.header.status_code, Str(TemplateString(configUrl)),
                            OrElse(data.header.hint, Null)))

\* the try block throwing without the hint
TryBlock_DropsHint(data, configUrl) ==
    IF data.shape = "envelope" /\ data.header.status_code = 200
    THEN Return(data)
    ELSE Throw(MXMException(data.header.status_code, Str(TemplateString(configUrl)), Null))

\* the body of try after the await
TryBlock(data, configUrl) ==
    IF data.shape = "noMessage"
    THEN Throw(TypeError("Cannot read properties of undefined (reading 'header')"))
    ELSE IF data.shape = "noHeader"
    THEN Throw(TypeError("Cannot destructure property 'status_code' of 'response.data.message.header' as it is undefined."))
    ELSE LET status_code == data.header.status_code
         IN  IF status_code = 200
             THEN Return(data)
             ELSE LET hint == OrElse(data.header.hint, Null)
                  IN  Throw(MXMException(status_code, Str(TemplateString(configUrl)), hint))

\* the catch clause throwing on what it does not recognise: throw error
CatchClause_Rethrows(error) ==
    IF error.response.present
    THEN MusixmatchError(
             Str(<<"Status code: ", ToString(error.response.status),
                   "\nHTTP error occurred: ">> \o TemplateString(error.response.data)),
             Undefined)
    ELSE IF error.code = "ECONNREFUSED"
    THEN MusixmatchError(Str(<<"Connection refused">>), Undefined)
    ELSE error

\* the catch clause without its ECONNREFUSED branch
CatchClause_NoRefusedBranch(error) ==
    IF error.response.present
    THEN MusixmatchError(
             Str(<<"Status code: ", ToString(error.response.status),
                   "\nHTTP error occurred: ">> \o TemplateString(error.response.data)),
             Undefined)
    ELSE MusixmatchError(error.message, Undefined)

\* the catch clause: whatever was thrown inside try, by axios or by the
\* try block itself, leaves as a MusixmatchError built with one argument
CatchClause(error) ==
    IF error.response.present
    THEN MusixmatchError(
             Str(<<"Status code: ", ToString(error.response.status),
                   "\nHTTP error occurred: ">> \o TemplateString(error.response.data)),
             Undefined)
    ELSE IF error.code = "ECONNREFUSED"
    THEN MusixmatchError(Str(<<"Connection refused">>), Undefined)
    ELSE MusixmatchError(error.message, Undefined)

\* the promise _apiCall returns, once settled
Fulfilled(value) == [state |-> "fulfilled", value |-> value, reason |-> NoError]
Rejected(reason) == [state |-> "rejected", value |-> NoData, reason |-> reason]
Pending == [state |-> "pending", value |-> NoData, reason |-> NoError]

\* axios resolved with a response
OnResponse(data, configUrl) ==
    LET r == TryBlock(data, configUrl)
    IN  IF r.kind = "return" THEN Fulfilled(r.value)
        ELSE Rejected(CatchClause(r.error))

\* axios rejected with an error
OnFailure(error) == Rejected(CatchClause(error))

\* an error as axios raises it
AxiosError(message, code, response) ==
    ErrorObject("AxiosError", message, Undefined, Undefined, Undefined, response, code)

HttpResponse(status, data) == [present |-> TRUE, status |-> status, data |-> data]

NoTransport == [kind |-> "none", data |-> NoData, error |-> NoError]

(***************************************************************************)
(* Inputs                                                                  *)
(***************************************************************************)
Keys == {Undefined, Str(<<"K1">>), Str(<<"K2">>)}

\* atoms of parameter strings
Chars == {"q", "A B", "="}

RECURSIVE StringsOfLen(_)
StringsOfLen(n) == IF n = 0 THEN {<<>>}
                   ELSE {Append(s, ch) : s \in StringsOfLen(n - 1), ch \in Chars}

RECURSIVE StringsUpTo(_)
StringsUpTo(n) == IF n = 0 THEN StringsOfLen(0)
                  ELSE StringsOfLen(n) \cup StringsUpTo(n - 1)

\* parameter strings as callers write them
ParamStrings == {<<"q_artist", "=", "A B">>, <<"q_track", "=", "C">>,
                 <<"apikey", "=", "X">>, <<"q", "=", "a", "=", "b">>}

RECURSIVE ListsOfLen(_, _)
ListsOfLen(S, n) == IF n = 0 THEN {<<>>}
                    ELSE {Append(l, x) : l \in ListsOfLen(S, n - 1), x \in S}

RECURSIVE ListsUpTo(_, _)
ListsUpTo(S, n) == IF n = 0 THEN ListsOfLen(S, 0)
                   ELSE ListsOfLen(S, n) \cup ListsUpTo(S, n - 1)

\* argument lists: up to MaxArgs usual parameter strings, or one arbitrary
\* string of up to MaxStrLen atoms
ParamArgs == ListsUpTo(ParamStrings, MaxArgs) \cup {<<s>> : s \in StringsUpTo(MaxStrLen)}

FewArgs == {<<>>, <<<<"q_track", "=", "C">>>>}

FewEndpoints == {"trackSearch", "trackLyricsPost", "musicGenresGet"}

Hints == {Undefined, Null, Str(<<>>), Str(<<"renew">>)}

OtherCodes == {0, 201, 406}

StatusCodes == {200} \cup TableCodes \cup OtherCodes

Bodies == {"body1", "body2"}

AllData == {Envelope(sc, h, b) : sc \in StatusCodes, h \in Hints, b \in Bodies}
               \cup {MalformedData("noMessage"), MalformedData("noHeader")}

FewData == {Envelope(200, Undefined, "body1"), Envelope(404, Undefined, "body1")}

HttpResponses == {NoResponse,
                  HttpResponse(502, Str(<<"Bad Gateway">>)),
                  HttpResponse(500, Obj(<<"{\"error\":\"x\"}">>))}

ErrorCodes == {"", "ECONNREFUSED", "ETIMEDOUT"}

ErrorMessages == {Str(<<"connect ECONNREFUSED 127.0.0.1:443">>),
                  Str(<<"timeout of 1000ms exceeded">>)}

AllFailures == {AxiosError(m, c, r) : m \in ErrorMessages, c \in ErrorCodes, r \in HttpResponses}

FewFailures == {AxiosError(Str(<<"connect ECONNREFUSED 127.0.0.1:443">>), "ECONNREFUSED", NoResponse)}

(***************************************************************************)
(* State                                                                   *)
(***************************************************************************)
\* a call that has not been made
IdleCall == [pc |-> "idle", endpoint |-> "", args |-> <<>>,
             params |-> [given |-> FALSE, obj |-> EmptyObject],
             request |-> NoRequest, sent |-> 0,
             transport |-> NoTransport, promise |-> Pending]

\* new Musixmatch(apiKey)
Init == /\ apikey \in Keys
        /\ calls = [c \in CallIds |-> IdleCall]

(***************************************************************************)
(* Operations                                                              *)
(***************************************************************************)
\* setApiKey reaching into the requests in flight
SetApiKey_ReachesRequests(k) ==
    /\ apikey' = k
    /\ calls' = [c \in CallIds |->
                    IF calls[c].pc = "awaiting"
                    THEN [calls[c] EXCEPT !.request.params = Put(@, ApiKeyName, k)]
                    ELSE calls[c]]

\* setApiKey(apiKey)
SetApiKey(k) == /\ apikey' = k
                /\ UNCHANGED calls

\* an endpoint method that refuses to send a request without a credential
EndpointCall_NeedsKey(c, name, args) ==
    /\ calls[c].pc = "idle"
    /\ Endpoint(name).takesParams \/ args = <<>>
    /\ LET e == Endpoint(name)
           params == ParamsArgument(name, args)
       IN  calls' = [calls EXCEPT ![c] =
                        IF apikey = Undefined
                        THEN [pc |-> "settled", endpoint |-> name, args |-> args,
                              params |-> params, request |-> NoRequest, sent |-> 0,
                              transport |-> NoTransport,
                              promise |-> Rejected(MusixmatchError(Str(<<"Missing API key">>), Undefined))]
                        ELSE [pc |-> "awaiting", endpoint |-> name, args |-> args,
                              params |-> params,
                              request |-> Request(e.method, e.apiMethod, params, apikey),
                              sent |-> 1,
                              transport |-> NoTransport, promise |-> Pending]]
    /\ UNCHANGED apikey

\* A public endpoint method is called: it parses its arguments and runs
\* _apiCall up to the await, which sends the one HTTP request.
EndpointCall(c, name, args) ==
    /\ calls[c].pc = "idle"
    /\ Endpoint(name).takesParams \/ args = <<>>
    /\ LET e == Endpoint(name)
           params == ParamsArgument(name, args)
       IN  calls' = [calls EXCEPT ![c] =
                        [pc |-> "awaiting", endpoint |-> name, args |-> args,
                         params |-> params,
                         request |-> Request(e.method, e.apiMethod, params, apikey),
                         sent |-> 1,
                         transport |-> NoTransport, promise |-> Pending]]
    /\ UNCHANGED apikey

\* axios resolves with a response whose config is the request's; _apiCall
\* resumes after the await and settles its promise.
RequestSucceeds(c, data) ==
    /\ calls[c].pc = "awaiting"
    /\ calls' = [calls EXCEPT ![c].pc = "settled",
                              ![c].transport = [kind |-> "response", data |-> data, error |-> NoError],
                              ![c].promise = OnResponse(data, calls[c].request.url)]
    /\ UNCHANGED apikey

\* a failure that rejects every call in flight
RequestFails_FailsAll(c, error) ==
    /\ calls[c].pc = "awaiting"
    /\ calls' = [d \in CallIds |->
                    IF calls[d].pc = "awaiting"
                    THEN [calls[d] EXCEPT !.pc = "settled",
                                          !.transport = [kind |-> "error", data |-> NoData, error |-> error],
                                          !.promise = OnFailure(error)]
                    ELSE calls[d]]
    /\ UNCHANGED apikey

\* a failed request sent again instead of being reported
RequestFails_Retries(c, error) ==
    /\ calls[c].pc = "awaiting"
    /\ calls' = IF calls[c].sent = 1
                THEN [calls EXCEPT ![c].sent = 2]
                ELSE [calls EXCEPT ![c].pc = "settled",
                                   ![c].transport = [kind |-> "error", data |-> NoData, error |-> error],
                                   ![c].promise = OnFailure(error)]
    /\ UNCHANGED apikey

\* axios rejects with an error; _apiCall resumes in its catch clause.
RequestFails(c, error) ==
    /\ calls[c].pc = "awaiting"
    /\ calls' = [calls EXCEPT ![c].pc = "settled",
                              ![c].transport = [kind |-> "error", data |-> NoData, error |-> error],
                              ![c].promise = OnFailure(error)]
    /\ UNCHANGED apikey

(***************************************************************************)
(* Specifications                                                          *)
(***************************************************************************)
\* Calls made concurrently on one client.
Next == \/ \E k \in Keys : SetApiKey(k)
        \/ \E c \in CallIds, name \in FewEndpoints, args \in FewArgs : EndpointCall(c, name, args)
        \/ \E c \in CallIds, data \in FewData : RequestSucceeds(c, data)
        \/ \E c \in CallIds, error \in FewFailures : RequestFails(c, error)

Spec == Init /\ [][Next]_vars

\* One call of any endpoint, with everything the transport can yield.
NextDispatch ==
    \/ \E k \in Keys : SetApiKey(k)
    \/ \E name \in EndpointNames, args \in FewArgs : EndpointCall(1, name, args)
    \/ \E data \in AllData : RequestSucceeds(1, data)
    \/ \E error \in AllFailures : RequestFails(1, error)

SpecDispatch == Init /\ [][NextDispatch]_vars

\* One call, with every argument list.
NextParams ==
    \/ \E k \in Keys : SetApiKey(k)
    \/ \E name \in FewEndpoints, args \in ParamArgs : EndpointCall(1, name, args)
    \/ \E data \in FewData : RequestSucceeds(1, data)
    \/ \E error \in FewFailures : RequestFails(1, error)

SpecParams == Init /\ [][NextParams]_vars

TypeOK == /\ apikey \in Keys
          /\ \A c \in CallIds : calls[c].pc \in {"idle", "awaiting", "settled"}

(***************************************************************************)
(* Properties                                                              *)
(***************************************************************************)
\* call c has settled after axios resolved with an envelope
GotEnvelope(c) == /\ calls[c].pc = "settled"
                  /\ calls[c].transport.kind = "response"
                  /\ calls[c].transport.data.shape = "envelope"

\* call c has settled after axios resolved with an envelope whose status is not 200
GotServiceError(c) == GotEnvelope(c) /\ calls[c].transport.data.header.status_code # 200

\* call c has settled after axios rejected
GotFailure(c) == calls[c].pc = "settled" /\ calls[c].transport.kind = "error"

\* C1: a call whose response envelope has status code 200 resolves with
\* exactly the envelope the service sent, and raises no error.
C1_OkReturnsEnvelope ==
    \A c \in CallIds :
        (GotEnvelope(c) /\ calls[c].transport.data.header.status_code = 200)
            => /\ calls[c].promise.state = "fulfilled"
               /\ calls[c].promise.value = calls[c].transport.data
               /\ calls[c].promise.reason = NoError

C1_Witness ==
    \E c \in CallIds :
        /\ GotEnvelope(c)
        /\ calls[c].transport.data.header.status_code = 200
        /\ calls[c].transport.data.header.hint = Str(<<"renew">>)
        /\ calls[c].promise.state = "fulfilled"

\* C2: a call whose response envelope has a status code other than 200 fails
\* with an MXMException whose status_code is the envelope's status code.
C2_ServiceErrorIsMXMException ==
    \A c \in CallIds :
        GotServiceError(c)
            => /\ calls[c].promise.state = "rejected"
               /\ calls[c].promise.reason.name = "MXMException"
               /\ calls[c].promise.reason.status_code
                      = Num(calls[c].transport.data.header.status_code)

\* C3: for every status code of the fixed table returned with no hint, the
\* message of the error the caller receives is the table entry of the code.
C3_TableMessage ==
    \A c \in CallIds :
        (/\ GotServiceError(c)
         /\ calls[c].transport.data.header.status_code \in TableCodes
         /\ IsNullish(calls[c].transport.data.header.hint))
            => /\ calls[c].promise.state = "rejected"
               /\ CodesLookup(calls[c].transport.data.header.status_code).t = "string"
               /\ calls[c].promise.reason.message
                      = CodesLookup(calls[c].transport.data.header.status_code)

C3_Witness ==
    \E c \in CallIds :
        /\ GotServiceError(c)
        /\ calls[c].transport.data.header.status_code = 503
        /\ calls[c].transport.data.header.hint = Undefined
        /\ calls[c].promise.state = "rejected"

\* C4 as stated: whenever the header of a non-200 envelope carries a hint
\* (any string), the message of the resulting error is the hint.
C4_AnyHintIsMessage ==
    \A c \in CallIds :
        (GotServiceError(c) /\ calls[c].transport.data.header.hint.t = "string")
            => /\ calls[c].promise.state = "rejected"
               /\ calls[c].promise.reason.message = calls[c].transport.data.header.hint

\* C4 as amended: whenever the header of a non-200 envelope carries a
\* non-empty hint, the message of the resulting error is the hint and not
\* the table entry, whether or not the code is in the table.
C4_NonEmptyHintIsMessage ==
    \A c \in CallIds :
        (/\ GotServiceError(c)
         /\ calls[c].transport.data.header.hint.t = "string"
         /\ calls[c].transport.data.header.hint.v # <<>>)
            => /\ calls[c].promise.state = "rejected"
               /\ calls[c].promise.reason.message = calls[c].transport.data.header.hint
               /\ calls[c].promise.reason.message
                      # CodesLookup(calls[c].transport.data.header.status_code)

C4_Witness ==
    \E c \in CallIds :
        /\ GotServiceError(c)
        /\ calls[c].transport.data.header.status_code = 401
        /\ calls[c].transport.data.header.hint = Str(<<"renew">>)
        /\ calls[c].promise.state = "rejected"

\* C5: a non-200 status code outside the fixed table, returned with no hint,
\* gives an error whose message is 'Unknown Error'.
C5_UnknownError ==
    \A c \in CallIds :
        (/\ GotServiceError(c)
         /\ calls[c].transport.data.header.status_code \notin TableCodes
         /\ IsNullish(calls[c].transport.data.header.hint))
            => /\ calls[c].promise.state = "rejected"
               /\ calls[c].promise.reason.message = Str(<<"Unknown Error">>)

C5_Witness ==
    \E c \in CallIds :
        /\ GotServiceError(c)
        /\ calls[c].transport.data.header.status_code = 406
        /\ calls[c].transport.data.header.hint = Undefined
        /\ calls[c].promise.state = "rejected"

\* C6: a failure with code ECONNREFUSED and no HTTP response gives a
\* MusixmatchError whose message is 'Connection refused', whatever the
\* message of the failure.
C6_ConnectionRefused ==
    \A c \in CallIds :
        (/\ GotFailure(c)
         /\ calls[c].transport.error.code = "ECONNREFUSED"
         /\ ~calls[c].transport.error.response.present)
            => /\ calls[c].promise.state = "rejected"
               /\ calls[c].promise.reason.name = "MusixmatchError"
               /\ calls[c].promise.reason.message = Str(<<"Connection refused">>)

C6_Witness ==
    \E c \in CallIds :
        /\ GotFailure(c)
        /\ calls[c].transport.error.code = "ECONNREFUSED"
        /\ ~calls[c].transport.error.response.present
        /\ calls[c].transport.error.message = Str(<<"timeout of 1000ms exceeded">>)
        /\ calls[c].promise.state = "rejected"

\* C7: a failure that carries an HTTP response gives a MusixmatchError whose
\* message embeds the status and the raw body of that response, whatever
\* the code of the failure.
C7_HttpErrorMessage ==
    \A c \in CallIds :
        (GotFailure(c) /\ calls[c].transport.error.response.present)
            => /\ calls[c].promise.state = "rejected"
               /\ calls[c].promise.reason.name = "MusixmatchError"
               /\ calls[c].promise.reason.message
                      = Str(<<"Status code: ",
                              ToString(calls[c].transport.error.response.status),
                              "\nHTTP error occurred: ">>
                            \o calls[c].transport.error.response.data.v)

\* C8: every MusixmatchError raised after a failed request carries the URL
\* of the request.
C8_TransportErrorUrl ==
    \A c \in CallIds :
        GotFailure(c)
            => /\ calls[c].promise.state = "rejected"
               /\ calls[c].promise.reason.name = "MusixmatchError"
               /\ calls[c].promise.reason.requestUrl = calls[c].request.url

\* the key and the value of a "key=value" string split on its first "="
KeyOf(s) == SubSeq(s, 1, FirstEq(s, 1) - 1)
ValueOf(s) == SubSeq(s, FirstEq(s, 1) + 1, Len(s))

\* C9: every "key=value" argument is split on its first "=" only: the
\* mapping holds, under the text before it, all the text after it (unless
\* a later argument has the same key).
C9_SplitOnFirstEq ==
    \A c \in CallIds :
        (calls[c].pc # "idle" /\ calls[c].params.given)
            => \A i \in 1..Len(calls[c].args) :
                   LET s == calls[c].args[i]
                   IN  (/\ FirstEq(s, 1) > 0
                        /\ \A j \in (i + 1)..Len(calls[c].args) :
                               Split(calls[c].args[j])[1] # KeyOf(s))
                           => /\ KeyOf(s) \in DOMAIN calls[c].params.obj
                              /\ calls[c].params.obj[KeyOf(s)] = Str(ValueOf(s))

\* C10: the query parameters of a request are the caller's parameter
\* mapping plus the stored credential under 'apikey', and the credential
\* alone when the method takes no parameters.
C10_QueryIsParamsPlusKey ==
    [][\A c \in CallIds :
          (calls[c].pc = "idle" /\ calls'[c].pc = "awaiting")
              => LET q == calls'[c].request.params
                     p == calls'[c].params
                 IN  /\ DOMAIN q = (IF p.given THEN DOMAIN p.obj ELSE {}) \cup {ApiKeyName}
                     /\ q[ApiKeyName] = apikey
                     /\ \A k \in DOMAIN q \ {ApiKeyName} : q[k] = p.obj[k]]_vars

C10_Witness ==
    \E c \in CallIds :
        /\ calls[c].pc = "awaiting"
        /\ calls[c].params.given
        /\ Cardinality(DOMAIN calls[c].params.obj \ {ApiKeyName}) >= 2
        /\ ApiKeyName \in DOMAIN calls[c].params.obj
        /\ calls[c].request.params[ApiKeyName] = Str(<<"K2">>)

\* call c has settled after a failure of any kind
GotAnyFailure(c) == GotFailure(c) \/ GotServiceError(c)

\* C11: a call sends exactly one HTTP request: the step that takes a call
\* out of awaiting settles it, with one request sent, and a failure of any
\* kind settles it as rejected; a settled call sends nothing more.
C11_OneRequestPerCall ==
    [][\A c \in CallIds :
          /\ (calls[c].pc = "awaiting" /\ calls'[c] # calls[c])
                 => /\ calls'[c].pc = "settled"
                    /\ calls'[c].sent = 1
                    /\ calls'[c].request = calls[c].request
                    /\ (calls'[c].transport.kind = "error"
                        \/ (/\ calls'[c].transport.data.shape = "envelope"
                            /\ calls'[c].transport.data.header.status_code # 200))
                           => calls'[c].promise.state = "rejected"
          /\ calls[c].pc = "settled" => calls'[c] = calls[c]]_vars

C11_Witness ==
    \E c \in CallIds :
        /\ GotAnyFailure(c)
        /\ calls[c].transport.kind = "error"
        /\ calls[c].transport.error.code = "ETIMEDOUT"
        /\ calls[c].sent = 1
        /\ calls[c].promise.state = "rejected"

\* C12: a settled call has one outcome: it is fulfilled with the whole
\* envelope the service sent and no error, or rejected with no value and an
\* error that is an MXMException or a MusixmatchError.
C12_OneOutcome ==
    \A c \in CallIds :
        calls[c].pc = "settled"
            => \/ /\ calls[c].promise.state = "fulfilled"
                  /\ calls[c].promise.value.shape = "envelope"
                  /\ calls[c].promise.value = calls[c].transport.data
                  /\ calls[c].promise.reason = NoError
               \/ /\ calls[c].promise.state = "rejected"
                  /\ calls[c].promise.value = NoData
                  /\ calls[c].promise.reason.name \in {"MXMException", "MusixmatchError"}

C12_Witness ==
    \E c \in CallIds :
        /\ GotFailure(c)
        /\ ~calls[c].transport.error.response.present
        /\ calls[c].transport.error.code = ""
        /\ calls[c].promise.state = "rejected"

\* the calls a step changes
Changed == {c \in CallIds : calls'[c] # calls[c]}

\* C13: concurrent calls do not interact: a step changes at most one call,
\* and two settled calls with the same endpoint, arguments, credential read
\* and transport result have the same request and the same outcome.
C13_CallsIndependent ==
    [][/\ Cardinality(Changed) <= 1
       /\ \A c, d \in CallIds :
              (/\ calls'[c].pc = "settled"
               /\ calls'[d].pc = "settled"
               /\ calls'[c].endpoint = calls'[d].endpoint
               /\ calls'[c].args = calls'[d].args
               /\ calls'[c].request.params[ApiKeyName] = calls'[d].request.params[ApiKeyName]
               /\ calls'[c].transport = calls'[d].transport)
                  => /\ calls'[c].request = calls'[d].request
                     /\ calls'[c].promise = calls'[d].promise]_vars

C13_Witness ==
    \E c, d \in CallIds :
        /\ c # d
        /\ GotFailure(c)
        /\ calls[c].promise.state = "rejected"
        /\ calls[d].pc = "awaiting"
        /\ calls[d].promise = Pending

\* C14: a call carries the credential stored when it is made, the value
\* the constructor or the last setApiKey left: the step that takes a call
\* out of idle sends one request whose apikey is the stored credential,
\* also when no credential is stored.
C14_SendsStoredKey ==
    [][\A c \in CallIds :
          (calls[c].pc = "idle" /\ calls'[c] # calls[c])
              => /\ calls'[c].pc = "awaiting"
                 /\ calls'[c].sent = 1
                 /\ ApiKeyName \in DOMAIN calls'[c].request.params
                 /\ calls'[c].request.params[ApiKeyName] = apikey]_vars

C14_Witness ==
    \E c, d \in CallIds :
        /\ calls[c].pc # "idle"
        /\ calls[c].sent = 1
        /\ calls[c].request.params[ApiKeyName] = Undefined
        /\ calls[d].pc # "idle"
        /\ calls[d].request.params[ApiKeyName] = Str(<<"K2">>)
        /\ apikey = Str(<<"K1">>)

\* the (HTTP method, API method) pair of each public method
FixedPair(name) ==
    CASE name = "trackGet" -> <<"get", "track.get">>
      [] name = "trackSearch" -> <<"get", "track.search">>
      [] name = "chartArtistGet" -> <<"get", "chart.artists.get">>
      [] name = "chartTracksGet" -> <<"get", "chart.tracks.get">>
      [] name = "trackLyricsGet" -> <<"get", "track.lyrics.get">>
      [] name = "trackLyricsPost" -> <<"post", "track.lyrics.post">>
      [] name = "trackLyricsMoodGet" -> <<"get", "track.lyrics.mood.get">>
      [] name = "trackSnippetGet" -> <<"get", "track.snippet.get">>
      [] name = "trackSubtitleGet" -> <<"get", "track.subtitle.get">>
      [] name = "trackRichSyncGet" -> <<"get", "track.richsync.get">>
      [] name = "trackLyricsTranslationGet" -> <<"get", "track.lyrics.translation.get">>
      [] name = "trackSubttileTranslationGet" -> <<"get", "track.subtitle.translation.get">>
      [] name = "musicGenresGet" -> <<"get", "music.genres.get">>
      [] name = "matcherLyricsGet" -> <<"get", "matcher.lyrics.get">>
      [] name = "matcherTrackGet" -> <<"get", "matcher.track.get">>
      [] name = "matcherSubtitleGet" -> <<"get", "matcher.subtitle.get">>
      [] name = "artistGet" -> <<"get", "artist.get">>
      [] name = "artistSearch" -> <<"get", "artist.search">>
      [] name = "artistAlbumsGet" -> <<"get", "artist.albums.get">>
      [] name = "artistRelatedGet" -> <<"get", "artist.related.get">>
      [] name = "albumGet" -> <<"get", "album.get">>
      [] name = "albumTracksGet" -> <<"get", "album.tracks.get">>
      [] OTHER -> <<"", "">>

\* C15: the request of every public method has the method and the path
\* fixed for that method, whatever its arguments; only trackLyricsPost uses
\* 'post'; and every request, that of trackLyricsPost too, carries the
\* parameters as query parameters and no body.
C15_FixedMethodAndPath ==
    \A c \in CallIds :
        calls[c].pc # "idle"
            => /\ calls[c].request.method = FixedPair(calls[c].endpoint)[1]
               /\ calls[c].request.url = Str(<<baseUrl, FixedPair(calls[c].endpoint)[2]>>)
               /\ (calls[c].request.method = "post") = (calls[c].endpoint = "trackLyricsPost")
               /\ calls[c].request.method \in {"get", "post"}
               /\ calls[c].request.data = Undefined
               /\ \A k \in DOMAIN calls[c].params.obj : k \in DOMAIN calls[c].request.params

C15_Witness ==
    \E c \in CallIds :
        /\ calls[c].pc = "awaiting"
        /\ calls[c].endpoint = "trackLyricsPost"
        /\ calls[c].request.method = "post"
        /\ calls[c].args # <<>>
        /\ <<"q_track">> \in DOMAIN calls[c].request.params

\* C16: when the response has no message or the message has no header, the
\* call is rejected with a MusixmatchError: it does not resolve with the
\* data and does not fail with another kind of error.
C16_MalformedIsTransportError ==
    \A c \in CallIds :
        (/\ calls[c].pc = "settled"
         /\ calls[c].transport.kind = "response"
         /\ calls[c].transport.data.shape \in {"noMessage", "noHeader"})
            => /\ calls[c].promise.state = "rejected"
               /\ calls[c].promise.value = NoData
               /\ calls[c].promise.reason.name = "MusixmatchError"

C16_Witness ==
    \E c \in CallIds :
        /\ calls[c].pc = "settled"
        /\ calls[c].transport.kind = "response"
        /\ calls[c].transport.data.shape = "noHeader"
        /\ calls[c].promise.state = "rejected"

\* C17: when the caller passes a parameter named 'apikey', the apikey of
\* the request is the stored credential and not the caller's value, also
\* when no credential is stored.
C17_StoredKeyWins ==
    [][\A c \in CallIds :
          (/\ calls[c].pc = "idle"
           /\ calls'[c].pc # "idle"
           /\ ApiKeyName \in DOMAIN calls'[c].params.obj)
              => /\ calls'[c].request.params[ApiKeyName] = apikey
                 /\ calls'[c].request.params[ApiKeyName] # calls'[c].params.obj[ApiKeyName]]_vars

C17_Witness ==
    \E c \in CallIds :
        /\ calls[c].pc = "awaiting"
        /\ ApiKeyName \in DOMAIN calls[c].params.obj
        /\ calls[c].params.obj[ApiKeyName] = Str(<<"X">>)
        /\ calls[c].request.params[ApiKeyName] = Undefined

\* C18: a call reads the credential when it is made and never writes it:
\* no step changes the request of a call that has been made, whatever
\* setApiKey does meanwhile, and a step that changes a call leaves the
\* stored credential as it was.
C18_CredentialFrame ==
    [][/\ \A c \in CallIds : calls[c].pc # "idle" => calls'[c].request = calls[c].request
       /\ Changed # {} => apikey' = apikey]_vars

C18_Witness ==
    \E c \in CallIds :
        /\ calls[c].pc = "settled"
        /\ calls[c].promise.state = "rejected"
        /\ calls[c].request.params[ApiKeyName] = Str(<<"K1">>)
        /\ apikey = Str(<<"K2">>)

====
